---- MODULE Spec2Model ----
(***************************************************************************)
(* Blog post service (backend/server.js) and the frontend session gate     *)
(* (frontend/middleware.tsx).                                              *)
(*                                                                         *)
(* The Post collection is a function from assigned ids to documents.  A    *)
(* document is a function from field names to values; a field the client   *)
(* did not supply is absent from its domain.  Every handler issues exactly *)
(* one store call, so a handler is one atomic step at that call; the PATCH *)
(* handler is also modelled split at its await (SpecLike) so that several  *)
(* accepted increments are in flight at once.                              *)
(***************************************************************************)
EXTENDS Integers, Sequences, FiniteSets, TLC

VARIABLES store, nextId, resp, inflight, ledger, gate

vars == <<store, nextId, resp, inflight, ledger, gate>>

(***************************************************************************)
(* Bounds                                                                  *)
(***************************************************************************)
MaxIds == 2        \* ids the store hands out in one run
MaxBatch == 2      \* drafts in one POST /posts array
MaxLikes == 1      \* a PATCH keeps |like.count| within this in the CRUD runs
MaxPatches == 3    \* PATCH requests accepted in one SpecLike run
MaxInflight == 2   \* accepted PATCH requests awaiting the store at once
MaxSegs == 2       \* path segments after the first, in the gate runs

(***************************************************************************)
(* JSON values whose type the code inspects (typeof inc, text.split)       *)
(***************************************************************************)
Str(chars) == [t |-> "string", s |-> chars]
Num(n) == [t |-> "number", v |-> n]
Undefined == [t |-> "undefined"]

EmptyObject == <<>>

Has(obj, f) == f \in DOMAIN obj

\* an id parameter that is no 24-hex ObjectId string
BadId == 0
ObjectIds == 1..MaxIds
IdParams == {BadId} \cup ObjectIds

(***************************************************************************)
(* postSchema                                                              *)
(***************************************************************************)
SchemaFields ==
  {"image", "category", "title", "description", "author", "date", "like", "readTime"}

DefaultImage == "https://images.unsplash.com/photo-1506744038136-46273834b3fb"
DefaultLike == [count |-> 0, isliked |-> FALSE]
NowISO == "now"

(***************************************************************************)
(* calculateReadTime                                                       *)
(***************************************************************************)
WordsPerMinute == 200

IsSpace(c) == c \in {" ", "\n", "\t"}

\* text.split(/\s+/).length: one piece more than the maximal whitespace runs
SplitLength(chars) ==
  Cardinality({i \in 1..Len(chars) :
                 IsSpace(chars[i]) /\ (i = 1 \/ ~IsSpace(chars[i - 1]))}) + 1

Ceil(n, d) == (n + d - 1) \div d

calculateReadTime(text) ==
  LET words == SplitLength(text.s)
      minutes == Ceil(words, WordsPerMinute)
  IN  ToString(minutes) \o " min read"

\* text?.split on a value that is no string throws a TypeError
SplitThrows(text) == text.t # "string"

(***************************************************************************)
(* The document store, as the handlers use it through the Post model       *)
(***************************************************************************)
\* the id parameter casts to an ObjectId; a malformed one makes the query reject
castObjectId(id) == id \in ObjectIds

\* a String path keeps strings and stringifies numbers
castString(v) == IF v.t = "string" THEN v ELSE Str(<<ToString(v.v)>>)

castDoc(doc) ==
  [f \in DOMAIN doc |-> IF f = "description" THEN castString(doc[f]) ELSE doc[f]]

WithId(doc, id) ==
  [f \in DOMAIN doc \cup {"_id"} |-> IF f = "_id" THEN id ELSE doc[f]]

\* variant: the update never touches like
castUpdateKeepsLike(body) ==
  [op |-> "$set",
   set |-> castDoc([f \in (DOMAIN body \cap SchemaFields) \ {"like"} |-> body[f]])]

\* strict schema: only schema paths of the body are written, each by $set
castUpdate(body) ==
  [op |-> "$set", set |-> castDoc([f \in DOMAIN body \cap SchemaFields |-> body[f]])]

incUpdate(inc) == [op |-> "$inc", by |-> inc.v]

\* variant: the increment clamps like.count at zero
applyUpdateFloor(doc, update) ==
  IF update.op = "$inc"
  THEN [doc EXCEPT !["like"] =
          [@ EXCEPT !.count = IF @ + update.by < 0 THEN 0 ELSE @ + update.by]]
  ELSE [f \in DOMAIN doc \cup DOMAIN update.set |->
          IF f \in DOMAIN update.set THEN update.set[f] ELSE doc[f]]

applyUpdate(doc, update) ==
  IF update.op = "$inc"
  THEN [doc EXCEPT !["like"] = [@ EXCEPT !.count = @ + update.by]]
  ELSE [f \in DOMAIN doc \cup DOMAIN update.set |->
          IF f \in DOMAIN update.set THEN update.set[f] ELSE doc[f]]

Throw == [kind |-> "throw"]
Null == [kind |-> "null"]
Found(doc) == [kind |-> "doc", doc |-> doc]

findById(st, id, dbOk) ==
  IF ~dbOk \/ ~castObjectId(id) THEN Throw
  ELSE IF id \in DOMAIN st THEN Found(st[id]) ELSE Null

\* one atomic read-modify-write of the matched document; {new: true}
findByIdAndUpdate(st, id, update, dbOk) ==
  IF ~dbOk \/ ~castObjectId(id) THEN [res |-> Throw, store |-> st]
  ELSE IF id \notin DOMAIN st THEN [res |-> Null, store |-> st]
  ELSE LET updated == applyUpdate(st[id], update)
       IN  [res |-> Found(updated), store |-> [st EXCEPT ![id] = updated]]

findByIdAndDelete(st, id, dbOk) ==
  IF ~dbOk \/ ~castObjectId(id) THEN [res |-> Throw, store |-> st]
  ELSE IF id \notin DOMAIN st THEN [res |-> Null, store |-> st]
  ELSE [res |-> Found(st[id]), store |-> [i \in DOMAIN st \ {id} |-> st[i]]]

\* variant: only the first matching document is removed
deleteOne(st, dbOk) ==
  IF ~dbOk THEN [res |-> Throw, store |-> st]
  ELSE IF st = EmptyObject
       THEN [res |-> [kind |-> "result", deletedCount |-> 0], store |-> st]
       ELSE LET first == CHOOSE i \in DOMAIN st : \A j \in DOMAIN st : i <= j
            IN  [res |-> [kind |-> "result", deletedCount |-> 1],
                 store |-> [i \in DOMAIN st \ {first} |-> st[i]]]

deleteMany(st, dbOk) ==
  IF ~dbOk THEN [res |-> Throw, store |-> st]
  ELSE [res |-> [kind |-> "result", deletedCount |-> Cardinality(DOMAIN st)],
        store |-> EmptyObject]

find(st, dbOk) ==
  IF ~dbOk THEN Throw ELSE [kind |-> "docs", docs |-> {st[i] : i \in DOMAIN st}]

\* variant: a failing batch leaves the documents before its last one written
insertManyPartial(st, n, docs, dbOk) ==
  LET k == IF dbOk THEN Len(docs) ELSE IF Len(docs) = 0 THEN 0 ELSE Len(docs) - 1
      saved == [i \in 1..k |-> WithId(castDoc(docs[i]), n + i)]
      newIds == {n + i : i \in 1..k}
      written == [id \in DOMAIN st \cup newIds |->
                    IF id \in newIds THEN saved[id - n] ELSE st[id]]
  IN  IF dbOk THEN [res |-> [kind |-> "docs", docs |-> saved], store |-> written,
                    nextId |-> n + k]
      ELSE [res |-> Throw, store |-> written, nextId |-> n + k]

\* one batch insert: every document gets a fresh id, or nothing is written
insertMany(st, n, docs, dbOk) ==
  IF ~dbOk THEN [res |-> Throw, store |-> st, nextId |-> n]
  ELSE LET saved == [i \in 1..Len(docs) |-> WithId(castDoc(docs[i]), n + i)]
           newIds == {n + i : i \in 1..Len(docs)}
       IN  [res |-> [kind |-> "docs", docs |-> saved],
            store |-> [id \in DOMAIN st \cup newIds |->
                         IF id \in newIds THEN saved[id - n] ELSE st[id]],
            nextId |-> n + Len(docs)]

(***************************************************************************)
(* POST /posts                                                             *)
(***************************************************************************)
\* post.f || fallback: undefined and "" are falsy
TruthyString(post, f) == Has(post, f) /\ post[f] # ""

TruthyDescription(post) ==
  /\ Has(post, "description")
  /\ ~(post.description.t = "string" /\ post.description.s = <<>>)
  /\ ~(post.description.t = "number" /\ post.description.v = 0)

descriptionOrTemp(post) ==
  IF TruthyDescription(post) THEN post.description ELSE Str(<<"t", "e", "m", "p">>)

\* the map callback throws when calculateReadTime is handed a non-string
DraftThrows(post) ==
  ~TruthyString(post, "readTime") /\ SplitThrows(descriptionOrTemp(post))

dynamicPost(post) ==
  [f \in {"image", "date", "like", "readTime"}
         \cup (DOMAIN post \cap {"category", "title", "description", "author"}) |->
     CASE f = "image" -> IF TruthyString(post, "image") THEN post.image ELSE DefaultImage
       [] f = "date" -> IF TruthyString(post, "date") THEN post.date ELSE NowISO
       [] f = "like" -> IF Has(post, "like") THEN post.like ELSE DefaultLike
       [] f = "readTime" -> IF TruthyString(post, "readTime") THEN post.readTime
                            ELSE calculateReadTime(descriptionOrTemp(post))
       [] OTHER -> post[f]]

\* if (!Array.isArray(body)) body = [body]
AsArray(body) == IF body.t = "array" THEN body.items ELSE <<body.obj>>

Create(body, dbOk) ==
  LET drafts == AsArray(body)
      throws == \E i \in 1..Len(drafts) : DraftThrows(drafts[i])
      r == insertMany(store, nextId,
                      [i \in 1..Len(drafts) |-> dynamicPost(drafts[i])], dbOk)
  IN  /\ nextId + Len(drafts) <= MaxIds
      /\ IF throws \/ r.res.kind = "throw"
         THEN /\ resp' = [op |-> "create", req |-> body, status |-> 500, posts |-> <<>>]
              /\ store' = (IF throws THEN store ELSE r.store)
              /\ nextId' = (IF throws THEN nextId ELSE r.nextId)
         ELSE /\ resp' = [op |-> "create", req |-> body, status |-> 201,
                          posts |-> r.res.docs]
              /\ store' = r.store
              /\ nextId' = r.nextId
      /\ UNCHANGED <<inflight, ledger, gate>>

(***************************************************************************)
(* GET /posts                                                              *)
(***************************************************************************)
ListAll(dbOk) ==
  LET r == find(store, dbOk)
  IN  /\ resp' = IF r.kind = "throw"
                 THEN [op |-> "list", status |-> 500, dbOk |-> dbOk]
                 ELSE [op |-> "list", status |-> 200, dbOk |-> dbOk, posts |-> r.docs]
      /\ UNCHANGED <<store, nextId, inflight, ledger, gate>>

(***************************************************************************)
(* GET /posts/:id                                                          *)
(***************************************************************************)
GetById(id, dbOk) ==
  LET r == findById(store, id, dbOk)
  IN  /\ resp' = CASE r.kind = "throw" -> [op |-> "get", id |-> id, dbOk |-> dbOk, status |-> 500]
                   [] r.kind = "null" -> [op |-> "get", id |-> id, dbOk |-> dbOk, status |-> 404]
                   [] OTHER -> [op |-> "get", id |-> id, dbOk |-> dbOk, status |-> 200,
                                post |-> r.doc]
      /\ UNCHANGED <<store, nextId, inflight, ledger, gate>>

(***************************************************************************)
(* PUT /posts/:id                                                          *)
(***************************************************************************)
ReplaceById(id, body, dbOk) ==
  LET r == findByIdAndUpdate(store, id, castUpdate(body), dbOk)
  IN  /\ resp' = CASE r.res.kind = "throw" ->
                        [op |-> "put", id |-> id, dbOk |-> dbOk, req |-> body, status |-> 500]
                   [] r.res.kind = "null" ->
                        [op |-> "put", id |-> id, dbOk |-> dbOk, req |-> body, status |-> 404]
                   [] OTHER ->
                        [op |-> "put", id |-> id, dbOk |-> dbOk, req |-> body, status |-> 200,
                         post |-> r.res.doc]
      /\ store' = r.store
      /\ UNCHANGED <<nextId, inflight, ledger, gate>>

(***************************************************************************)
(* PATCH /posts/:id                                                        *)
(***************************************************************************)
\* variant: only the type of inc is checked
InvalidIncTypeOnly(inc) == inc.t # "number"

\* variant: a number is refused only when it is zero
InvalidIncFalsy(inc) == inc.t # "number" \/ inc.v = 0

\* typeof inc !== "number" || ![1, -1].includes(inc)
InvalidInc(inc) == inc.t # "number" \/ inc.v \notin {1, -1}

PatchResponse(id, inc, dbOk, r) ==
  CASE r.res.kind = "throw" ->
         [op |-> "patch", id |-> id, dbOk |-> dbOk, inc |-> inc, status |-> 500]
    [] r.res.kind = "null" ->
         [op |-> "patch", id |-> id, dbOk |-> dbOk, inc |-> inc, status |-> 404]
    [] OTHER ->
         [op |-> "patch", id |-> id, dbOk |-> dbOk, inc |-> inc, status |-> 200,
          post |-> r.res.doc]

Abs(n) == IF n < 0 THEN -n ELSE n

IncrementLike(id, inc, dbOk) ==
  IF InvalidInc(inc)
  THEN /\ resp' = [op |-> "patch", id |-> id, inc |-> inc, status |-> 400]
       /\ UNCHANGED <<store, nextId, inflight, ledger, gate>>
  ELSE LET r == findByIdAndUpdate(store, id, incUpdate(inc), dbOk)
       IN  /\ r.res.kind = "doc" => Abs(r.res.doc.like.count) <= MaxLikes
           /\ resp' = PatchResponse(id, inc, dbOk, r)
           /\ store' = r.store
           /\ UNCHANGED <<nextId, inflight, ledger, gate>>

(***************************************************************************)
(* DELETE /posts/:id                                                       *)
(***************************************************************************)
DeleteById(id, dbOk) ==
  LET r == findByIdAndDelete(store, id, dbOk)
  IN  /\ resp' = CASE r.res.kind = "throw" ->
                        [op |-> "delete", id |-> id, dbOk |-> dbOk, status |-> 500]
                   [] r.res.kind = "null" ->
                        [op |-> "delete", id |-> id, dbOk |-> dbOk, status |-> 404]
                   [] OTHER ->
                        [op |-> "delete", id |-> id, dbOk |-> dbOk, status |-> 200,
                         post |-> r.res.doc]
      /\ store' = r.store
      /\ UNCHANGED <<nextId, inflight, ledger, gate>>

(***************************************************************************)
(* DELETE /posts                                                           *)
(***************************************************************************)
DeleteAll(dbOk) ==
  LET r == deleteMany(store, dbOk)
  IN  /\ resp' = IF r.res.kind = "throw"
                 THEN [op |-> "deleteAll", status |-> 500, dbOk |-> dbOk]
                 ELSE [op |-> "deleteAll", status |-> 200, dbOk |-> dbOk,
                       deletedCount |-> r.res.deletedCount]
      /\ store' = r.store
      /\ UNCHANGED <<nextId, inflight, ledger, gate>>

(***************************************************************************)
(* Requests of the CRUD runs                                               *)
(***************************************************************************)
Chars2 == <<"w", " ", "w">>

FullDraft ==
  [image |-> "u1.png", category |-> "tech", title |-> "A", description |-> Str(Chars2),
   author |-> [name |-> "ann", img |-> "ann.png"], date |-> "2024-01-01",
   like |-> [count |-> 1, isliked |-> TRUE], readTime |-> "9 min read"]

NumberDraft == [description |-> Num(5)]

Drafts == {EmptyObject, NumberDraft}

SeqsUpTo(S, n) == UNION {[1..k -> S] : k \in 0..n}

CreateBodies ==
  {[t |-> "object", obj |-> d] : d \in Drafts}
    \cup {[t |-> "array", items |-> ds] : ds \in SeqsUpTo(Drafts, MaxBatch)}

FullBody ==
  [image |-> "u2.png", category |-> "news", title |-> "C", description |-> Str(<<"w">>),
   author |-> [name |-> "bob", img |-> "bob.png"], date |-> "2025-02-02",
   like |-> [count |-> 1, isliked |-> FALSE], readTime |-> "1 min read"]

\* every field but like, and one the schema does not know
PartialBody ==
  [image |-> "u2.png", category |-> "news", title |-> "C", description |-> Str(<<"w">>),
   author |-> [name |-> "bob", img |-> "bob.png"], date |-> "2025-02-02",
   readTime |-> "1 min read", role |-> "admin"]

PutBodies == {FullBody, PartialBody}

IncValues == {Num(1), Num(-1), Num(0), Num(2), Str(<<"1">>), Undefined}

NoResponse == [op |-> "none", status |-> 0]

NoLedger == [accepted |-> 0, peak |-> 0, initial |-> EmptyObject, sum |-> EmptyObject]

Idle == [session |-> FALSE, path |-> <<>>, result |-> [kind |-> "none"]]

Init ==
  /\ store = EmptyObject
  /\ nextId = 0
  /\ resp = NoResponse
  /\ inflight = {}
  /\ ledger = NoLedger
  /\ gate = Idle

DoCreate == \E body \in CreateBodies, dbOk \in BOOLEAN : Create(body, dbOk)
DoListAll == \E dbOk \in BOOLEAN : ListAll(dbOk)
DoGetById == \E id \in IdParams, dbOk \in BOOLEAN : GetById(id, dbOk)
DoReplaceById ==
  \E id \in IdParams, body \in PutBodies, dbOk \in BOOLEAN : ReplaceById(id, body, dbOk)
DoIncrementLike ==
  \E id \in IdParams, inc \in IncValues, dbOk \in BOOLEAN : IncrementLike(id, inc, dbOk)
DoDeleteById == \E id \in IdParams, dbOk \in BOOLEAN : DeleteById(id, dbOk)
DoDeleteAll == \E dbOk \in BOOLEAN : DeleteAll(dbOk)

Next ==
  \/ DoCreate
  \/ DoListAll
  \/ DoGetById
  \/ DoReplaceById
  \/ DoIncrementLike
  \/ DoDeleteById
  \/ DoDeleteAll

Spec == Init /\ [][Next]_vars

(***************************************************************************)
(* PATCH /posts/:id split at its await: the handler validates and issues   *)
(* the store call; the store runs the pending calls in any order, each     *)
(* atomically, and the handler's continuation sends the response.          *)
(***************************************************************************)
FreeSlots == (1..MaxInflight) \ {r.slot : r \in inflight}

PatchReceive(id, inc) ==
  IF InvalidInc(inc)
  THEN /\ resp' = [op |-> "patch", id |-> id, inc |-> inc, status |-> 400]
       /\ UNCHANGED <<store, nextId, inflight, ledger, gate>>
  ELSE /\ ledger.accepted < MaxPatches
       /\ FreeSlots # {}
       /\ LET slot == CHOOSE k \in FreeSlots : \A j \in FreeSlots : k <= j
          IN  inflight' = inflight \cup {[slot |-> slot, id |-> id, inc |-> inc]}
       /\ ledger' = [ledger EXCEPT !.accepted = @ + 1,
                                   !.peak = IF Cardinality(inflight) + 1 > @
                                            THEN Cardinality(inflight) + 1 ELSE @]
       /\ UNCHANGED <<store, nextId, resp, gate>>

PatchExec(call, dbOk) ==
  LET r == findByIdAndUpdate(store, call.id, incUpdate(call.inc), dbOk)
  IN  /\ call \in inflight
      /\ inflight' = inflight \ {call}
      /\ store' = r.store
      /\ resp' = PatchResponse(call.id, call.inc, dbOk, r)
      /\ ledger' = IF r.res.kind = "doc"
                   THEN [ledger EXCEPT !.sum[call.id] = @ + call.inc.v]
                   ELSE ledger
      /\ UNCHANGED <<nextId, gate>>

SeedDrafts == {EmptyObject, FullDraft}

InitLike ==
  /\ \E d \in SeedDrafts :
       store = insertMany(EmptyObject, 0, <<dynamicPost(d)>>, TRUE).store
  /\ nextId = 1
  /\ resp = NoResponse
  /\ inflight = {}
  /\ ledger = [accepted |-> 0, peak |-> 0,
               initial |-> [id \in DOMAIN store |-> store[id].like.count],
               sum |-> [id \in DOMAIN store |-> 0]]
  /\ gate = Idle

DoPatchReceive == \E id \in IdParams, inc \in IncValues : PatchReceive(id, inc)
DoPatchExec == \E call \in inflight, dbOk \in BOOLEAN : PatchExec(call, dbOk)

NextLike ==
  \/ DoPatchReceive
  \/ DoPatchExec

SpecLike == InitLike /\ [][NextLike]_vars

(***************************************************************************)
(* POST /posts on drafts whose description length crosses the 200-word     *)
(* boundary of calculateReadTime                                           *)
(***************************************************************************)
\* n words separated by single spaces
Words(n) == [i \in 1..(2 * n - 1) |-> IF i % 2 = 1 THEN "w" ELSE " "]

WordCounts == {1, 199, 200, 201, 250, 400}

Descriptions ==
  {Str(Words(n)) : n \in WordCounts}
    \cup {Str(Words(n) \o <<" ">>) : n \in WordCounts}
    \cup {Str(<<"\n">> \o Words(n)) : n \in WordCounts}
    \cup {Str(<<>>), Str(<<" ">>), Num(0)}

ReadTimeDrafts ==
  {[description |-> d] : d \in Descriptions}
    \cup {[description |-> d, readTime |-> r] : d \in Descriptions, r \in {"", "9 min read"}}
    \cup {[title |-> "A"], [title |-> "A", readTime |-> "9 min read"]}

DoCreateDraft == \E d \in ReadTimeDrafts : Create([t |-> "object", obj |-> d], TRUE)

NextDraft == DoCreateDraft

SpecDraft == Init /\ [][NextDraft]_vars

(***************************************************************************)
(* frontend/middleware.tsx                                                 *)
(***************************************************************************)
Signin == <<"/", "s", "i", "g", "n", "i", "n">>
Signup == <<"/", "s", "i", "g", "n", "u", "p">>
Login == <<"/", "l", "o", "g", "i", "n">>
ApiAuth == <<"/", "a", "p", "i", "/", "a", "u", "t", "h">>

publicRoutes == {Signin, Signup, Login, ApiAuth}

\* path.startsWith(r)
startsWith(path, r) == Len(r) <= Len(path) /\ SubSeq(path, 1, Len(r)) = r

isPublic(path) == \E r \in publicRoutes : startsWith(path, r)

Redirect(to) == [kind |-> "redirect", to |-> to]
NextResponse == [kind |-> "next"]

\* variant: the public-route test lost its negation
middlewareLostNegation(session, path) ==
  IF ~session /\ isPublic(path) THEN Redirect(Signin) ELSE NextResponse

middleware(session, path) ==
  IF ~session /\ ~isPublic(path) THEN Redirect(Signin) ELSE NextResponse

Middleware(session, path) ==
  /\ gate' = [session |-> session, path |-> path, result |-> middleware(session, path)]
  /\ UNCHANGED <<store, nextId, resp, inflight, ledger>>

FirstSegments ==
  {<<"/">>, Signin, Signup, Login, <<"/", "a", "p", "i">>, <<"/", "p", "o", "s", "t", "s">>,
   <<"/", "s", "i", "g", "n">>}

MoreSegments ==
  {<<"/">>, Signin, <<"/", "a", "u", "t", "h">>, <<"x">>, <<"/", "1">>}

RECURSIVE Flatten(_)
Flatten(segs) == IF segs = <<>> THEN <<>> ELSE Head(segs) \o Flatten(Tail(segs))

Paths == {a \o Flatten(rest) : a \in FirstSegments, rest \in SeqsUpTo(MoreSegments, MaxSegs)}

DoMiddleware == \E session \in BOOLEAN, path \in Paths : Middleware(session, path)

NextGate == DoMiddleware

SpecGate == Init /\ [][NextGate]_vars

(***************************************************************************)
(* Properties                                                              *)
(***************************************************************************)
LikeChanged(id) == store'[id].like.count # store[id].like.count

LikeDiff(id) == store'[id].like.count - store[id].like.count

Surviving == DOMAIN store \cap DOMAIN store'

BadDeltaRejected ==
  [][(resp'.op = "patch" /\ resp'.inc \notin {Num(1), Num(-1)}) =>
       /\ resp'.status = 400
       /\ store' = store]_vars

\* a delta of 2 aimed at an existing Post was refused
BadDeltaOnExistingPost ==
  /\ resp.op = "patch" /\ resp.status = 400
  /\ resp.inc = Num(2)
  /\ resp.id \in DOMAIN store

\* C3: whatever the order in which the store runs the accepted increments in
\* flight, each Post's like.count equals its initial count plus the sum of the
\* deltas applied to it, with no lost update and no floor at zero.
LikesAdditive ==
  \A id \in DOMAIN store :
    store[id].like.count = ledger.initial[id] + ledger.sum[id]

\* two increments were in flight together and the count went below zero
ConcurrentLikesBelowZero ==
  /\ inflight = {}
  /\ ledger.peak >= 2
  /\ \E id \in DOMAIN store :
       /\ ledger.initial[id] = 0
       /\ ledger.sum[id] = -2
       /\ store[id].like.count = -2

BodyLength(body) == IF body.t = "array" THEN Len(body.items) ELSE 1

\* C4: a Create of N drafts either answers 201 and adds exactly N Posts with
\* pairwise distinct ids that no existing Post has, leaving the others as they
\* were, or answers 500 and adds nothing.
CreateAllOrNothing ==
  [][resp'.op = "create" =>
       LET n == BodyLength(resp'.req)
           new == DOMAIN store' \ DOMAIN store
           posts == resp'.posts
       IN  \/ /\ resp'.status = 201
              /\ Len(posts) = n
              /\ Cardinality(new) = n
              /\ \A i, j \in 1..n : i # j => posts[i]._id # posts[j]._id
              /\ {posts[i]._id : i \in 1..n} = new
              /\ \A i \in 1..n : store'[posts[i]._id] = posts[i]
              /\ \A id \in DOMAIN store : id \in DOMAIN store' /\ store'[id] = store[id]
           \/ /\ resp'.status = 500
              /\ store' = store]_vars

\* a batch of two drafts was persisted
BatchOfTwoCreated ==
  /\ resp.op = "create" /\ resp.status = 201
  /\ resp.req.t = "array"
  /\ Len(resp.posts) = 2
  /\ Cardinality(DOMAIN store) = 2

\* C5 as stated: while the store is reachable GetById answers 200 with the
\* Post of that id when one exists and 404 otherwise, a malformed id included;
\* it never answers 500.
GetByIdFoundOrNotFound ==
  (resp.op = "get" /\ resp.dbOk) =>
    \/ resp.status = 200 /\ resp.id \in DOMAIN store /\ resp.post = store[resp.id]
    \/ resp.status = 404 /\ resp.id \notin DOMAIN store

ByIdOps == {"get", "put", "patch", "delete"}

\* the request reached the store and the store call failed for lack of it
StoreFailed(r) == Has(r, "dbOk") /\ ~r.dbOk

ValidationFailure(r) ==
  \/ r.id = BadId
  \/ r.op = "patch" /\ r.inc \notin {Num(1), Num(-1)}

\* C6 as stated: for a by-id operation a bad id shape or a bad delta is
\* answered 400, a persistence failure 500, and an id that resolves to no Post
\* 404; no class is answered with the status of another.
FailureClassesDistinct ==
  resp.op \in ByIdOps =>
    /\ (ValidationFailure(resp) /\ ~StoreFailed(resp)) => resp.status = 400
    /\ (~ValidationFailure(resp) /\ StoreFailed(resp)) => resp.status = 500
    /\ resp.status = 400 => ValidationFailure(resp)
    /\ resp.status = 500 => StoreFailed(resp)
    /\ resp.status = 404 => ~ValidationFailure(resp) /\ resp.id \notin DOMAIN store

\* C7: a successful ReplaceById leaves the Post under its id with every schema
\* field the body supplies equal to the supplied value, and answers with that
\* document; on a well-formed id that no Post has it answers 404 and changes
\* nothing.
ReplaceOverwritesFields ==
  [][resp'.op = "put" =>
       LET id == resp'.id
           body == resp'.req
       IN  /\ resp'.status = 200 =>
                /\ id \in DOMAIN store
                /\ DOMAIN store' = DOMAIN store
                /\ \A f \in SchemaFields \cap DOMAIN body : store'[id][f] = body[f]
                /\ \A f \in DOMAIN store[id] \ DOMAIN body : store'[id][f] = store[id][f]
                /\ store'[id]["_id"] = id
                /\ resp'.post = store'[id]
                /\ \A other \in DOMAIN store \ {id} : store'[other] = store[other]
           /\ (resp'.dbOk /\ id \in ObjectIds \ DOMAIN store) =>
                resp'.status = 404
           /\ resp'.status = 404 => store' = store]_vars

\* a full body replaced every field of a Post created with defaults
FullBodyReplaced ==
  /\ resp.op = "put" /\ resp.status = 200
  /\ resp.req = FullBody
  /\ \A f \in SchemaFields : store[resp.id][f] = FullBody[f]
  /\ store[resp.id]["_id"] = resp.id

\* C8: a successful DeleteAll empties the collection and reports how many
\* Posts it removed, and a ListAll that follows it returns no Post.
DeleteAllEmpties ==
  [][/\ (resp'.op = "deleteAll" /\ resp'.status = 200) =>
          /\ store' = EmptyObject
          /\ resp'.deletedCount = Cardinality(DOMAIN store)
     /\ (resp.op = "deleteAll" /\ resp.status = 200
           /\ resp'.op = "list" /\ resp'.status = 200) =>
          resp'.posts = {}]_vars

\* two Posts were removed at once
DeleteAllRemovedTwo ==
  /\ resp.op = "deleteAll" /\ resp.status = 200
  /\ resp.deletedCount = 2
  /\ store = EmptyObject

\* the maximal runs of non-whitespace characters
WordCount(chars) ==
  Cardinality({i \in 1..Len(chars) :
                 ~IsSpace(chars[i]) /\ (i = 1 \/ IsSpace(chars[i - 1]))})

ExpectedMinutes(draft) ==
  LET text == IF Has(draft, "description") /\ draft.description.t = "string"
                   /\ draft.description.s # <<>>
              THEN draft.description.s ELSE <<"t", "e", "m", "p">>
      m == Ceil(WordCount(text), WordsPerMinute)
  IN  IF m < 1 THEN 1 ELSE m

\* C9 as stated: a Post created from a draft without readTime has readTime
\* "<m> min read" with m = ceil(wordCount(description) / 200), at least 1, an
\* empty or missing description counting as the one word "temp".
ReadTimeFromWordCount ==
  (resp.op = "create" /\ resp.status = 201) =>
    \A i \in 1..Len(resp.posts) :
      LET draft == AsArray(resp.req)[i]
      IN  ~Has(draft, "readTime") =>
            resp.posts[i].readTime = ToString(ExpectedMinutes(draft)) \o " min read"

\* C10: a request without a session whose path is not under a public route is
\* redirected to /signin, and a request is passed through only with a session
\* or on a public route.
GateDeniesWithoutSession ==
  gate.result.kind # "none" =>
    /\ (~gate.session /\ ~isPublic(gate.path)) => gate.result = Redirect(Signin)
    /\ gate.result.kind = "next" => (gate.session \/ isPublic(gate.path))

\* /posts without a session was redirected
PostsRedirectedWithoutSession ==
  /\ gate.result.kind = "redirect"
  /\ ~gate.session
  /\ gate.path = <<"/", "p", "o", "s", "t", "s">>

====
